---------------------------- MODULE Spec2Model ----------------------------
(***************************************************************************)
(* MoltLang translation core and MCP tool handlers.                        *)
(*                                                                         *)
(* Texts and token strings are TLA+ strings; positions are 0-based as in   *)
(* Python's str.find and JavaScript's String indices.  Fractions are kept  *)
(* as scaled integers: confidence in hundredths, the efficiency percentage *)
(* in tenths of a percent.                                                 *)
(***************************************************************************)
EXTENDS Integers, Sequences, FiniteSets, TLC

VARIABLES
    pc,          \* position of the forward call: detect, group, flatten, fallback, score, done
    text,        \* the English text handed to _analyze_and_translate
    detected,    \* dict of DetectedToken lists built by _detect_with_positions
    groups,      \* list of operation groups built by _build_semantic_groups
    tokens,      \* TokenSequence.tokens of the forward call
    confidence,  \* result of _calculate_confidence, in hundredths
    fbText,      \* text argument of a direct _apply_fallback_rules call
    fbInput,     \* token list as handed to the first _apply_fallback_rules call
    fbTokens,    \* token list of a direct _apply_fallback_rules call
    fbOnce,      \* token list after the first application
    fbRuns,      \* number of applications performed on fbTokens
    fbConfidence,\* _calculate_confidence of fbTokens, in hundredths (-1: not computed)
    english,     \* args.english of handleGetEfficiency
    molt,        \* args.molt of handleGetEfficiency / isValidMoltSyntax
    effPc,       \* position of the efficiency / syntax tool call
    englishWords,\* englishWords computed by handleGetEfficiency
    moltTokens,  \* moltTokens computed by handleGetEfficiency
    efficiency,  \* efficiency as printed by toFixed(1), in tenths of a percent
    syntaxValid, \* return value of isValidMoltSyntax
    toolName,    \* request.params.name of a tool call
    variant,     \* which handler source serves the call: "plain" or "logged"
    callArgs,    \* request.params.arguments.molt
    callPc,      \* position of the tool call: idle, request, awaiting, done
    pythonCode,  \* argument line of the program handed to python -c
    child,       \* the spawned process: none, running, killed, closed
    exitCode,    \* the code handed to the 'close' listener: none, 0, 1, null
    stdout,      \* stdout collected by executePython
    stderr,      \* stderr collected by executePython
    timer,       \* the timeout of executePython: none, armed, fired, cleared
    promise,     \* the promise returned by executePython
    response,    \* what the tool-call handler hands back to the server
    isPrimaryAvailable, \* MoltLangBridge.isPrimaryAvailable
    file,        \* lines of the message file of the bridge
    sends,       \* the sendToAgent calls: position, arguments, result
    recv,        \* the last receiveFromAgent call: arguments and result
    cache,       \* TranslationCache.cache: the entries of the Map, one per key
    now,         \* Date.now(), in ticks
    lastSet,     \* per (text, direction), the most recent setCachedTranslation: time and ttl argument
    got          \* the last getCachedTranslation call: key, time and result

translateVars == <<pc, text, detected, groups, tokens, confidence>>
fallbackVars  == <<fbText, fbInput, fbTokens, fbOnce, fbRuns, fbConfidence>>
toolVars      == <<english, molt, effPc, englishWords, moltTokens, efficiency, syntaxValid>>
callVars      == <<toolName, variant, callArgs, callPc, pythonCode, child, exitCode, stdout, stderr,
                   timer, promise, response>>
bridgeVars    == <<isPrimaryAvailable, file, sends, recv>>
cacheVars     == <<cache, now, lastSet, got>>
serviceVars   == <<bridgeVars, cacheVars>>
vars == <<translateVars, fallbackVars, toolVars, callVars, serviceVars>>

---------------------------------------------------------------------------
(* Bounds of the model *)

MaxPhrases == 3      \* phrases concatenated into a generated text
MaxTokLen == 3       \* length of a token list handed to the fallback engine
MaxEnglishLen == 5   \* characters of a generated english argument
MaxMoltLen == 4      \* characters of a generated molt argument of get_efficiency
MaxChunks == 3       \* chunks concatenated into a molt argument of the syntax check

---------------------------------------------------------------------------
(* Strings *)

Min(S) == CHOOSE x \in S : \A y \in S : x <= y

CharAt(s, i) == SubSeq(s, i + 1, i + 1)

UpperAlpha == "ABCDEFGHIJKLMNOPQRSTUVWXYZ"

LowerAlpha == "abcdefghijklmnopqrstuvwxyz"

Digits == "0123456789"

InClass(c, class) == \E i \in 1..Len(class) : SubSeq(class, i, i) = c

LowerChar(c) ==
    IF InClass(c, UpperAlpha)
    THEN LET i == CHOOSE j \in 1..26 : SubSeq(UpperAlpha, j, j) = c
         IN SubSeq(LowerAlpha, i, i)
    ELSE c

RECURSIVE Lower(_)
Lower(s) == IF Len(s) = 0 THEN "" ELSE LowerChar(SubSeq(s, 1, 1)) \o Lower(Tail(s))

\* str.find(k, start): lowest 0-based index >= start where k occurs, or -1
Find(s, k, start) ==
    LET n == Len(s)
        m == Len(k)
        hits == {i \in start..(n - m) : SubSeq(s, i + 1, i + m) = k}
    IN IF hits = {} THEN -1 ELSE Min(hits)

\* the Python test  k in s
Contains(s, k) == Find(s, k, 0) # -1

StartsWith(s, p) == Len(s) >= Len(p) /\ SubSeq(s, 1, Len(p)) = p

IsSpace(c) == c \in {" ", "\t", "\n", "\r"}

IsWordChar(c) == InClass(c, LowerAlpha) \/ InClass(c, UpperAlpha) \/ InClass(c, Digits) \/ c = "_"

---------------------------------------------------------------------------
(* Tokens *)

NoValue == "None"

Token(type) == [type |-> type, value |-> NoValue]

TokenV(type, value) == [type |-> type, value |-> value]

NoToken == [type |-> "None", value |-> NoValue]

DetectedToken(token, position, keyword) ==
    [token |-> token, position |-> position, keyword |-> keyword]

\* an add that overwrites the last token instead of appending
Add_overwrite(seq, token) ==
    IF seq = <<>> THEN <<token>> ELSE [seq EXCEPT ![Len(seq)] = token]

\* TokenSequence.add
Add(seq, token) == Append(seq, token)

---------------------------------------------------------------------------
(* Detector: keyword tables *)

op_keywords == <<
    [type |-> "OP:fetch",     keywords |-> <<"fetch", "get", "retrieve", "download">>],
    [type |-> "OP:parse",     keywords |-> <<"parse", "analyze", "extract">>],
    [type |-> "OP:transform", keywords |-> <<"transform", "convert">>],
    [type |-> "OP:search",    keywords |-> <<"search", "find", "lookup">>],
    [type |-> "OP:validate",  keywords |-> <<"validate", "verify", "check", "ensure">>],
    [type |-> "OP:filter",    keywords |-> <<"filter", "sift", "screen">>],
    [type |-> "OP:aggregate", keywords |-> <<"aggregate", "combine", "merge", "summarize">>] >>

src_keywords == <<
    [type |-> "SRC:api",  keywords |-> <<"api", "endpoint", "rest">>],
    [type |-> "SRC:db",   keywords |-> <<"database", "db">>],
    [type |-> "SRC:file", keywords |-> <<"file", "csv file">>],
    [type |-> "SRC:mem",  keywords |-> <<"memory", "cache", "ram">>] >>

ret_keywords == <<
    [type |-> "RET:json", keywords |-> <<"json", "object">>],
    [type |-> "RET:text", keywords |-> <<"csv", "text", "plain">>],
    [type |-> "RET:list", keywords |-> <<"list", "array">>],
    [type |-> "RET:dict", keywords |-> <<"dictionary", "dict", "map">>],
    [type |-> "RET:bool", keywords |-> <<"boolean", "bool">>],
    [type |-> "RET:num",  keywords |-> <<"number", "numeric">>] >>

ctl_keywords == <<
    [type |-> "CTL:try",     keywords |-> <<"try", "attempt", "attempting", "trying to", "give it a shot">>],
    [type |-> "CTL:catch",   keywords |-> <<"catch", "handle error", "on error", "except", "when error",
                                            "on failure", "error handler">>],
    [type |-> "CTL:finally", keywords |-> <<"finally", "cleanup", "afterwards", "always do">>] >>

err_keywords == <<
    [type |-> "ERR:retry", keywords |-> <<"retry", "try again", "reattempt", "attempt again", "keep trying">>],
    [type |-> "ERR:log",   keywords |-> <<"log", "logging", "record", "write log", "log entry", "log error">>],
    [type |-> "ERR:fail",  keywords |-> <<"fail", "failure", "throw error", "raise error", "abort on error">>] >>

type_keywords == <<
    [type |-> "TYPE:str",  keywords |-> <<"type str", "type string", "string type", "as string", "to string">>,
     name |-> "str", suffix |-> "ing"],
    [type |-> "TYPE:int",  keywords |-> <<"type int", "integer type", "as integer", "to integer">>,
     name |-> "int", suffix |-> "eger"],
    [type |-> "TYPE:list", keywords |-> <<"type list", "list type", "array type", "as list", "to list">>,
     name |-> "list", suffix |-> ""],
    [type |-> "TYPE:dict", keywords |-> <<"type dict", "dict type", "map type", "as dict", "to dict">>,
     name |-> "dict", suffix |-> ""] >>

mod_keywords == <<
    [type |-> "MOD:async",    keywords |-> <<"async">>],
    [type |-> "MOD:batch",    keywords |-> <<"batch">>],
    [type |-> "MOD:parallel", keywords |-> <<"parallel">>],
    [type |-> "MOD:cached",   keywords |-> <<"cache">>] >>

---------------------------------------------------------------------------
(* Detector: scanning *)

\* index of the first keyword of the list that occurs in the text, 0 if none
FirstKeyword(t, kws) ==
    LET hit == {i \in 1..Len(kws) : Find(t, kws[i], 0) # -1}
    IN IF hit = {} THEN 0 ELSE Min(hit)

\* one cue per type: first listed keyword that occurs, at its first position
RECURSIVE DetectSingle(_, _, _)
DetectSingle(t, table, i) ==
    IF i > Len(table) THEN <<>>
    ELSE LET e == table[i]
             k == FirstKeyword(t, e.keywords)
             cue == IF k = 0 THEN <<>>
                    ELSE <<DetectedToken(Token(e.type), Find(t, e.keywords[k], 0), e.keywords[k])>>
         IN cue \o DetectSingle(t, table, i + 1)

\* the  while True  loop of return detection: every occurrence from start on
RECURSIVE AllOccurrences(_, _, _, _)
AllOccurrences(t, type, keyword, start) ==
    LET pos == Find(t, keyword, start)
    IN IF pos = -1 THEN <<>>
       ELSE <<DetectedToken(Token(type), pos, keyword)>> \o AllOccurrences(t, type, keyword, pos + 1)

\* the  for keyword in keywords  loop of one return type, with its break
RECURSIVE ReturnKeywords(_, _, _, _, _)
ReturnKeywords(acc, t, type, kws, i) ==
    IF i > Len(kws) THEN acc
    ELSE LET acc2 == acc \o AllOccurrences(t, type, kws[i], 0)
         IN IF acc2 # <<>> THEN acc2 ELSE ReturnKeywords(acc2, t, type, kws, i + 1)

RECURSIVE DetectReturns(_, _, _)
DetectReturns(acc, t, i) ==
    IF i > Len(ret_keywords) THEN acc
    ELSE DetectReturns(ReturnKeywords(acc, t, ret_keywords[i].type, ret_keywords[i].keywords, 1), t, i + 1)

---------------------------------------------------------------------------
(* Detector: regular expressions of the parameter and type patterns *)

\* k occurs in s at 0-based index i
At(s, k, i) == i >= 0 /\ i + Len(k) <= Len(s) /\ SubSeq(s, i + 1, i + Len(k)) = k

\* end of the greedy run \s* starting at i
SkipSpaces(s, i) == Min({j \in i..Len(s) : j = Len(s) \/ ~IsSpace(CharAt(s, j))})

\* end of the greedy run \d* starting at i
SkipDigits(s, i) == Min({j \in i..Len(s) : j = Len(s) \/ ~InClass(CharAt(s, j), Digits)})

\* end of the greedy run [\w\-]* starting at i
SkipWordOrDash(s, i) ==
    Min({j \in i..Len(s) : j = Len(s) \/ ~(IsWordChar(CharAt(s, j)) \/ CharAt(s, j) = "-")})

IsQuote(c) == c \in {"\"", "'"}

\* end of the greedy run [^"']* starting at i
SkipNonQuote(s, i) == Min({j \in i..Len(s) : j = Len(s) \/ IsQuote(CharAt(s, j))})

\* end of the optional group (?:a|b|c)? tried at i: i itself when no alternative occurs
SepEnd(s, i, seps) ==
    LET hit == {n \in 1..Len(seps) : At(s, seps[n], i)}
    IN IF hit = {} THEN i ELSE i + Len(seps[Min(hit)])

\* \b at index i
WordBoundary(s, i) ==
    LET before == i > 0 /\ IsWordChar(CharAt(s, i - 1))
        after == i < Len(s) /\ IsWordChar(CharAt(s, i))
    IN before # after

NoMatch == [start |-> -1, value |-> NoValue]

\* kw\s*(?:of|:|=)?\s*(\d+) tried at p
NumberAfter(s, p, kw) ==
    LET a == SkipSpaces(s, p + Len(kw))
        c == SkipSpaces(s, SepEnd(s, a, <<"of", ":", "=">>))
        d == SkipDigits(s, c)
    IN IF At(s, kw, p) /\ d > c THEN [start |-> p, value |-> SubSeq(s, c + 1, d)] ELSE NoMatch

\* re.search of (?:kw1|kw2|...)\s*(?:of|:|=)?\s*(\d+): leftmost start, alternatives in order
SearchNumber(s, kws) ==
    LET ok(p) == {n \in 1..Len(kws) : NumberAfter(s, p, kws[n]).start # -1}
        starts == {p \in 0..Len(s) : ok(p) # {}}
    IN IF starts = {} THEN NoMatch
       ELSE NumberAfter(s, Min(starts), kws[Min(ok(Min(starts)))])

\* \s*(?:of|:|=)?\s*["']?([\w\-]+) tried right after "key" (k0), start of the match at p
KeyAfter(s, p, k0) ==
    LET a == SkipSpaces(s, k0)
        c == SkipSpaces(s, SepEnd(s, a, <<"of", ":", "=">>))
        q == IF c < Len(s) /\ IsQuote(CharAt(s, c)) THEN c + 1 ELSE c
        e == SkipWordOrDash(s, q)
        q2 == IF a < Len(s) /\ IsQuote(CharAt(s, a)) THEN a + 1 ELSE a
        e2 == SkipWordOrDash(s, q2)
    IN IF e > q THEN [start |-> p, value |-> SubSeq(s, q + 1, e)]
       ELSE IF e2 > q2 THEN [start |-> p, value |-> SubSeq(s, q2 + 1, e2)]
       ELSE NoMatch

\* (?:api\s+)?key\s*(?:of|:|=)?\s*["']?([\w\-]+)["']? tried at p
KeyAt(s, p) ==
    LET k1 == SkipSpaces(s, p + 3)
        withApi == IF At(s, "api", p) /\ k1 > p + 3 /\ At(s, "key", k1)
                   THEN KeyAfter(s, p, k1 + 3) ELSE NoMatch
    IN IF withApi.start # -1 THEN withApi
       ELSE IF At(s, "key", p) THEN KeyAfter(s, p, p + 3)
       ELSE NoMatch

SearchKey(s) ==
    LET starts == {p \in 0..Len(s) : KeyAt(s, p).start # -1}
    IN IF starts = {} THEN NoMatch ELSE KeyAt(s, Min(starts))

\* a non-empty capture [^"']+ can begin at x
CaptureOk(s, x) == x < Len(s) /\ ~IsQuote(CharAt(s, x))

\* kw\s+(?:for|:|=)?\s*["']?([^"']+) tried at p, in the order the backtracking tries it
QueryAfter(s, p, kw) ==
    LET k0 == p + Len(kw)
        a == SkipSpaces(s, k0)
        b == SepEnd(s, a, <<"for", ":", "=">>)
        c == SkipSpaces(s, b)
        cap(x) == [start |-> p, value |-> SubSeq(s, x + 1, SkipNonQuote(s, x))]
        quoteAt(x) == x < Len(s) /\ IsQuote(CharAt(s, x))
    IN IF ~At(s, kw, p) \/ a = k0 THEN NoMatch
       ELSE IF b > a /\ quoteAt(c) /\ CaptureOk(s, c + 1) THEN cap(c + 1)
       ELSE IF b > a /\ CaptureOk(s, c) THEN cap(c)
       ELSE IF b > a /\ c > b THEN cap(c - 1)
       ELSE IF quoteAt(a) /\ CaptureOk(s, a + 1) THEN cap(a + 1)
       ELSE IF CaptureOk(s, a) THEN cap(a)
       ELSE IF a - k0 >= 2 THEN cap(a - 1)
       ELSE NoMatch

SearchQuery(s) ==
    LET kws == <<"query", "search", "find">>
        ok(p) == {n \in 1..Len(kws) : QueryAfter(s, p, kws[n]).start # -1}
        starts == {p \in 0..Len(s) : ok(p) # {}}
    IN IF starts = {} THEN NoMatch
       ELSE QueryAfter(s, Min(starts), kws[Min(ok(Min(starts)))])

\* \btype\s*[:=]\s*name(?:suffix)?\b tried at p
TypeAt(s, p, name, suffix) ==
    LET a == SkipSpaces(s, p + 4)
        b == SkipSpaces(s, a + 1)
        e == b + Len(name)
    IN /\ At(s, "type", p) /\ WordBoundary(s, p)
       /\ a < Len(s) /\ CharAt(s, a) \in {":", "="}
       /\ At(s, name, b)
       /\ \/ suffix # "" /\ At(s, suffix, e) /\ WordBoundary(s, e + Len(suffix))
          \/ WordBoundary(s, e)

SearchType(s, name, suffix) ==
    LET starts == {p \in 0..Len(s) : TypeAt(s, p, name, suffix)}
    IN IF starts = {} THEN -1 ELSE Min(starts)

\* the parameter cues, in the order the patterns are tried
DetectParams(t) ==
    LET one(type, m, kw) ==
            IF m.start = -1 THEN <<>>
            ELSE <<DetectedToken(TokenV(type, m.value), m.start, kw)>>
    IN one("PARAM:timeout", SearchNumber(t, <<"timeout">>), "timeout")
       \o one("PARAM:limit", SearchNumber(t, <<"limit", "max", "maximum">>), "limit")
       \o one("PARAM:key", SearchKey(t), "key")
       \o one("PARAM:query", SearchQuery(t), "query")

\* the type-constraint cues: a listed phrase, or else the type[:=]name pattern
RECURSIVE DetectTypes(_, _)
DetectTypes(t, i) ==
    IF i > Len(type_keywords) THEN <<>>
    ELSE LET e == type_keywords[i]
             k == FirstKeyword(t, e.keywords)
             r == SearchType(t, e.name, e.suffix)
             cue == IF k # 0
                    THEN <<DetectedToken(Token(e.type), Find(t, e.keywords[k], 0), e.keywords[k])>>
                    ELSE IF r # -1 THEN <<DetectedToken(Token(e.type), r, "type")>>
                    ELSE <<>>
         IN cue \o DetectTypes(t, i + 1)

\* _detect_with_positions
DetectWithPositions(txt) ==
    LET text_lower == Lower(txt)
    IN [modifiers  |-> DetectSingle(text_lower, mod_keywords, 1),
        control    |-> DetectSingle(text_lower, ctl_keywords, 1),
        errors     |-> DetectSingle(text_lower, err_keywords, 1),
        operations |-> DetectSingle(text_lower, op_keywords, 1),
        sources    |-> DetectSingle(text_lower, src_keywords, 1),
        returns    |-> DetectReturns(<<>>, text_lower, 1),
        params     |-> DetectParams(text_lower),
        types      |-> DetectTypes(text_lower, 1)]

---------------------------------------------------------------------------
(* Semantic Grouper *)

\* sorted(cues, key=lambda x: x.position): stable insertion sort
RECURSIVE InsertByPosition(_, _)
InsertByPosition(sorted, cue) ==
    IF sorted = <<>> THEN <<cue>>
    ELSE IF sorted[Len(sorted)].position <= cue.position THEN Append(sorted, cue)
    ELSE Append(InsertByPosition(SubSeq(sorted, 1, Len(sorted) - 1), cue), sorted[Len(sorted)])

RECURSIVE SortFrom(_, _, _)
SortFrom(acc, cues, i) ==
    IF i > Len(cues) THEN acc ELSE SortFrom(InsertByPosition(acc, cues[i]), cues, i + 1)

\* the cues left in detection order
SortByPosition_unsorted(cues) == cues

SortByPosition(cues) == SortFrom(<<>>, cues, 1)

\* the cues of the index set js, in list order, as tokens
RECURSIVE TokensAt(_, _, _)
TokensAt(cues, js, j) ==
    IF j > Len(cues) THEN <<>>
    ELSE (IF j \in js THEN <<cues[j].token>> ELSE <<>>) \o TokensAt(cues, js, j + 1)

\* position of the operation after the i-th one, len(text_lower) for the last
NextOpPos(operations, i, text_lower) ==
    IF i + 1 <= Len(operations) THEN operations[i + 1].position ELSE Len(text_lower)

\* a span test that forgets the next operation
InSpan_unbounded(op, ret, next_op_pos) == op.position < ret.position

\* the  op.position < ret.position < next_op_pos  test
InSpan(op, ret, next_op_pos) == op.position < ret.position /\ ret.position < next_op_pos

\* the  elif  branch: "<keyword> to" / "<keyword>s to" in the text and the cue within 20 of " to "
ToPattern(op, ret, next_op_pos, text_lower) ==
    LET to_pos == Find(text_lower, " to ", op.position)
    IN /\ Contains(text_lower, op.keyword \o " to") \/ Contains(text_lower, op.keyword \o "s to")
       /\ to_pos # -1 /\ to_pos < next_op_pos
       /\ to_pos < ret.position /\ ret.position < to_pos + 20

\* a source index that passes for unclaimed whatever used_sources holds
Unclaimed_always(j, used_sources) == TRUE

\* the  j not in used_sources  test
Unclaimed(j, used_sources) == j \notin used_sources

\* the source search without the branch for the first operation
SourceFor_between(operations, sources, used_sources, i) ==
    LET prev_pos == IF i > 1 THEN operations[i - 1].position ELSE 0
        hit == {j \in 1..Len(sources) :
                   /\ Unclaimed(j, used_sources)
                   /\ prev_pos < sources[j].position
                   /\ sources[j].position < operations[i].position}
    IN IF hit = {} THEN 0 ELSE Min(hit)

\* index of the source cue the i-th operation takes, 0 for none
SourceFor(operations, sources, used_sources, i) ==
    IF i = 1 /\ sources # <<>> THEN 1
    ELSE LET prev_pos == IF i > 1 THEN operations[i - 1].position ELSE 0
             hit == {j \in 1..Len(sources) :
                        /\ Unclaimed(j, used_sources)
                        /\ prev_pos < sources[j].position
                        /\ sources[j].position < operations[i].position}
         IN IF hit = {} THEN 0 ELSE Min(hit)

\* indices of the return cues the i-th operation takes
ReturnsFor(operations, returns, used_returns, i, text_lower) ==
    LET op == operations[i]
        next_op_pos == NextOpPos(operations, i, text_lower)
    IN {j \in 1..Len(returns) :
           /\ j \notin used_returns
           /\ \/ InSpan(op, returns[j], next_op_pos)
              \/ ToPattern(op, returns[j], next_op_pos, text_lower)}

\* the  for i, op in enumerate(operations)  loop
RECURSIVE GroupLoop(_, _, _, _, _, _, _, _)
GroupLoop(acc, operations, sources, returns, used_sources, used_returns, i, text_lower) ==
    IF i > Len(operations) THEN [groups |-> acc, used_returns |-> used_returns]
    ELSE LET s == SourceFor(operations, sources, used_sources, i)
             rs == ReturnsFor(operations, returns, used_returns, i, text_lower)
             group == [operation |-> operations[i].token,
                       source    |-> IF s = 0 THEN NoToken ELSE sources[s].token,
                       returns   |-> TokensAt(returns, rs, 1),
                       params    |-> <<>>]
         IN GroupLoop(Append(acc, group), operations, sources, returns,
                      IF s = 0 THEN used_sources ELSE used_sources \cup {s},
                      used_returns \cup rs, i + 1, text_lower)

\* _build_semantic_groups
BuildSemanticGroups(txt, det) ==
    LET text_lower == Lower(txt)
        operations == SortByPosition(det.operations)
        sources == SortByPosition(det.sources)
        returns == SortByPosition(det.returns)
        r == GroupLoop(<<>>, operations, sources, returns, {}, {}, 1, text_lower)
        rest == (1..Len(returns)) \ r.used_returns
        n == Len(r.groups)
    IN IF n = 0 THEN r.groups
       ELSE [r.groups EXCEPT ![n].returns = @ \o TokensAt(returns, rest, 1)]

RECURSIVE CueTokens(_, _)
CueTokens(cues, i) ==
    IF i > Len(cues) THEN <<>> ELSE Add(<<>>, cues[i].token) \o CueTokens(cues, i + 1)

RECURSIVE GroupTokens(_, _)
GroupTokens(gs, i) ==
    IF i > Len(gs) THEN <<>>
    ELSE Add(<<>>, gs[i].operation)
         \o (IF gs[i].source # NoToken THEN Add(<<>>, gs[i].source) ELSE <<>>)
         \o gs[i].returns \o gs[i].params
         \o GroupTokens(gs, i + 1)

\* _flatten_groups
FlattenGroups(det, gs) ==
    CueTokens(det.modifiers, 1) \o CueTokens(det.control, 1) \o CueTokens(det.errors, 1)
    \o GroupTokens(gs, 1) \o CueTokens(det.types, 1)

---------------------------------------------------------------------------
(* Fallback Rule Engine and confidence *)

AnyWordIn(t, words) == \E i \in 1..Len(words) : Contains(t, words[i])

\* any(t.type.value.startswith(prefix) for t in tokens.tokens)
AnyTypeStartsWith(toks, prefix) == \E i \in 1..Len(toks) : StartsWith(toks[i].type, prefix)

\* any(t.type == type for t in tokens.tokens)
AnyTypeIs(toks, type) == \E i \in 1..Len(toks) : toks[i].type = type

\* any(part in t.type.value for t in tokens.tokens)
AnyTypeContains(toks, part) == \E i \in 1..Len(toks) : Contains(toks[i].type, part)

\* fallback 2 without its "no validate operation yet" test
ApplyFallbackRules_unguarded(txt, toks) ==
    LET text_lower == Lower(txt)
        t1 == IF AnyWordIn(text_lower, <<"safe", "careful", "graceful", "handle">>)
                 /\ ~AnyTypeStartsWith(toks, "CTL:")
              THEN Add(Add(toks, Token("CTL:try")), Token("CTL:catch"))
              ELSE toks
    IN IF AnyWordIn(text_lower, <<"ensure", "guarantee", "verify">>)
       THEN Add(t1, Token("OP:validate"))
       ELSE t1

\* _apply_fallback_rules
ApplyFallbackRules(txt, toks) ==
    LET text_lower == Lower(txt)
        t1 == IF AnyWordIn(text_lower, <<"safe", "careful", "graceful", "handle">>)
                 /\ ~AnyTypeStartsWith(toks, "CTL:")
              THEN Add(Add(toks, Token("CTL:try")), Token("CTL:catch"))
              ELSE toks
    IN IF AnyWordIn(text_lower, <<"ensure", "guarantee", "verify">>)
          /\ ~AnyTypeIs(t1, "OP:validate")
       THEN Add(t1, Token("OP:validate"))
       ELSE t1

\* round(x, 2) of x given in thousandths; the result is in hundredths
Round2(x) ==
    LET q == x \div 10
        r == x % 10
    IN IF r < 5 THEN q ELSE IF r > 5 THEN q + 1 ELSE IF q % 2 = 0 THEN q ELSE q + 1

\* min(0.95, 0.5 + len(tokens) * 0.1), in thousandths
BaseScore(n) == IF 500 + n * 100 < 950 THEN 500 + n * 100 ELSE 950

\* the sum returned without min(1.0, ...)
CalculateConfidence_uncapped(toks) ==
    LET has_operation == AnyTypeContains(toks, "OP:")
        has_source == AnyTypeContains(toks, "SRC:")
        has_return == AnyTypeContains(toks, "RET:")
        completeness == (IF has_operation THEN 300 ELSE 0)
                        + (IF has_source \/ has_return THEN 300 ELSE 0)
                        + (IF has_operation /\ (has_source \/ has_return) THEN 200 ELSE 0)
    IN IF Len(toks) = 0 THEN 0
       ELSE Round2(BaseScore(Len(toks)) + completeness)

\* _calculate_confidence, in hundredths
CalculateConfidence(toks) ==
    LET has_operation == AnyTypeContains(toks, "OP:")
        has_source == AnyTypeContains(toks, "SRC:")
        has_return == AnyTypeContains(toks, "RET:")
        completeness == (IF has_operation THEN 300 ELSE 0)
                        + (IF has_source \/ has_return THEN 300 ELSE 0)
                        + (IF has_operation /\ (has_source \/ has_return) THEN 200 ELSE 0)
        total == BaseScore(Len(toks)) + completeness
    IN IF Len(toks) = 0 THEN 0
       ELSE Round2(IF total < 1000 THEN total ELSE 1000)

---------------------------------------------------------------------------
(* Inputs *)

Test001 == "Fetch user data from the API and return JSON"

Test002 == "Parse JSON data from file, validate structure, transform to CSV"

Test003 == "Search database for user with ID 12345, return profile as dictionary"

Test004 == "Try to fetch from API, retry on failure, otherwise log error"

\* an operation, three sources between it and a second operation, a return
PipelineText == "Fetch from API, then use database and file to parse JSON"

\* a later-listed synonym of fetch before the first-listed one
SynonymText == "Get the report, then fetch the next"

\* two return types, the second named by a later-listed synonym
ReturnsText == "Parse JSON and build an array"

Phrases == {"parse ", "fetch ", "convert to ", "json ", "csv ", "api ", "key 7 ", "Safely ",
            "ensure ", "guarantee ", "db "}

RECURSIVE Concat(_, _)
Concat(ws, i) == IF i > Len(ws) THEN "" ELSE ws[i] \o Concat(ws, i + 1)

Texts ==
    {Test001, Test002, Test003, Test004, PipelineText, SynonymText, ReturnsText}
    \cup {Concat(ws, 1) : ws \in UNION {[1..n -> Phrases] : n \in 0..MaxPhrases}}

NoCues == [modifiers |-> <<>>, control |-> <<>>, errors |-> <<>>, operations |-> <<>>,
           sources |-> <<>>, returns |-> <<>>, params |-> <<>>, types |-> <<>>]

---------------------------------------------------------------------------
(* Forward call: _analyze_and_translate followed by scoring *)

\* JavaScript values that travel through the call
Undefined == [kind |-> "undefined", str |-> ""]

Null == [kind |-> "null", str |-> ""]

Str(s) == [kind |-> "string", str |-> s]

\* a promise that has not been created, is pending, or is settled with a value
Promise(state, value) == [state |-> state, value |-> value]

NoPromise == Promise("none", "")

\* no response yet
NoResponse == [content |-> <<>>, isError |-> FALSE, thrown |-> FALSE, error |-> ""]

CallIdle ==
    /\ toolName = "" /\ variant = "plain" /\ callArgs = Undefined /\ callPc = "idle"
    /\ pythonCode = "" /\ child = "none" /\ exitCode = "none"
    /\ stdout = "" /\ stderr = "" /\ timer = "none"
    /\ promise = NoPromise /\ response = NoResponse

\* no result of a sendToAgent call yet
NoResult == [success |-> FALSE, delivered |-> "none", error |-> ""]

\* a sendToAgent call that has not been made
NoSend == [pc |-> "idle", valid |-> FALSE, useFileFallback |-> FALSE, attempted |-> FALSE,
           appended |-> FALSE, rejected |-> FALSE, result |-> NoResult]

MaxCalls == 2   \* sendToAgent calls that may be in flight together

Calls == 1..MaxCalls

\* no receiveFromAgent call yet
NoRecv == [called |-> FALSE, limit |-> 0, agentId |-> "", readable |-> TRUE, result |-> <<>>]

\* no getCachedTranslation call yet
NoGet ==
    [called |-> FALSE, text |-> "", direction |-> "", time |-> 0, hit |-> FALSE, cached_at |-> 0,
     removed |-> FALSE]

BridgeIdle ==
    /\ isPrimaryAvailable = TRUE /\ file = <<>> /\ sends = [c \in Calls |-> NoSend] /\ recv = NoRecv

CacheIdle ==
    /\ cache = {} /\ now = 0 /\ lastSet = {} /\ got = NoGet

ServiceIdle == BridgeIdle /\ CacheIdle

FallbackIdle ==
    /\ fbText = "" /\ fbInput = <<>> /\ fbTokens = <<>> /\ fbOnce = <<>> /\ fbRuns = 0 /\ fbConfidence = -1

ToolIdle ==
    /\ english = "" /\ molt = "" /\ effPc = "idle"
    /\ englishWords = 0 /\ moltTokens = 0 /\ efficiency = 0 /\ syntaxValid = FALSE

TranslateIdle ==
    /\ pc = "idle" /\ text = "" /\ detected = NoCues /\ groups = <<>>
    /\ tokens = <<>> /\ confidence = -1

InitTranslate ==
    /\ pc = "detect"
    /\ text \in Texts
    /\ detected = NoCues
    /\ groups = <<>>
    /\ tokens = <<>>
    /\ confidence = -1
    /\ FallbackIdle
    /\ ToolIdle
    /\ CallIdle
    /\ ServiceIdle

\* Step 1: detect all tokens with positions
Detect ==
    /\ pc = "detect"
    /\ detected' = DetectWithPositions(text)
    /\ pc' = "group"
    /\ UNCHANGED <<text, groups, tokens, confidence, fallbackVars, toolVars, callVars, serviceVars>>

\* Step 2: build semantic groups
BuildGroups ==
    /\ pc = "group"
    /\ groups' = BuildSemanticGroups(text, detected)
    /\ pc' = "flatten"
    /\ UNCHANGED <<text, detected, tokens, confidence, fallbackVars, toolVars, callVars, serviceVars>>

\* Step 3: flatten to the final sequence
Flatten ==
    /\ pc = "flatten"
    /\ tokens' = FlattenGroups(detected, groups)
    /\ pc' = "fallback"
    /\ UNCHANGED <<text, detected, groups, confidence, fallbackVars, toolVars, callVars, serviceVars>>

\* Step 4: apply fallback rules
Fallback ==
    /\ pc = "fallback"
    /\ tokens' = ApplyFallbackRules(text, tokens)
    /\ pc' = "score"
    /\ UNCHANGED <<text, detected, groups, confidence, fallbackVars, toolVars, callVars, serviceVars>>

\* scoring of the finished sequence
Score ==
    /\ pc = "score"
    /\ confidence' = CalculateConfidence(tokens)
    /\ pc' = "done"
    /\ UNCHANGED <<text, detected, groups, tokens, fallbackVars, toolVars, callVars, serviceVars>>

NextTranslate == Detect \/ BuildGroups \/ Flatten \/ Fallback \/ Score

SpecTranslate == InitTranslate /\ [][NextTranslate]_vars

---------------------------------------------------------------------------
(* Properties of the forward call *)

IsOpToken(t) == StartsWith(t.type, "OP:")

IsRetToken(t) == StartsWith(t.type, "RET:")

\* indices of the operation tokens of a token list
OpIndices(toks) == {i \in 1..Len(toks) : IsOpToken(toks[i])}

\* the k-th smallest element of a set of integers
Kth(S, k) == CHOOSE x \in S : Cardinality({y \in S : y < x}) = k - 1

\* text position of the operation cue that produced an operation token
OpCuePosition(tok) ==
    LET i == CHOOSE j \in 1..Len(detected.operations) : detected.operations[j].token = tok
    IN detected.operations[i].position

DistinctOpPositions ==
    \A i, j \in 1..Len(detected.operations) :
        i # j => detected.operations[i].position # detected.operations[j].position

\* the tokens a group contributes after its operation token
GroupTail(g) == (IF g.source # NoToken THEN <<g.source>> ELSE <<>>) \o g.returns \o g.params

\* C1: when the operation cues lie at distinct text positions, the flattened
\* sequence lists the operation tokens in increasing order of cue position,
\* and each operation token is immediately followed by the source, return
\* and parameter tokens of its own group, up to the next operation token.
C1_GroupingOrderPreserved ==
    (pc = "fallback" /\ DistinctOpPositions) =>
        LET S == OpIndices(tokens)
            n == Cardinality(S)
            last == Len(tokens) - Len(detected.types)
        IN /\ n = Len(detected.operations)
           /\ n = Len(groups)
           /\ \A k \in 1..n :
                LET at == Kth(S, k)
                    stop == IF k < n THEN Kth(S, k + 1) - 1 ELSE last
                IN /\ tokens[at] = groups[k].operation
                   /\ k < n => OpCuePosition(tokens[at]) < OpCuePosition(tokens[Kth(S, k + 1)])
                   /\ SubSeq(tokens, at + 1, stop) = GroupTail(groups[k])

\* two operations detected in the opposite of their text order, one of them with a return
C1_Witness ==
    /\ pc = "fallback"
    /\ DistinctOpPositions
    /\ Len(detected.operations) >= 2
    /\ detected.operations[1].position > detected.operations[2].position
    /\ \E k \in 1..Len(groups) : groups[k].returns # <<>>


Count(seq, x) == Cardinality({i \in 1..Len(seq) : seq[i] = x})

\* number of times the groups from the i-th on hold the return token T
RECURSIVE HeldFrom(_, _)
HeldFrom(T, i) == IF i > Len(groups) THEN 0 ELSE Count(groups[i].returns, T) + HeldFrom(T, i + 1)

RetTokens == {Token(ret_keywords[i].type) : i \in 1..Len(ret_keywords)}

\* text position of the operation of the i-th group, and of the one after it
GroupPos(i) == OpCuePosition(groups[i].operation)

GroupEnd(i) == IF i < Len(groups) THEN GroupPos(i + 1) ELSE Len(text)

\* indices of the return cues with token T strictly inside the span of group i
ReturnCuesInSpan(i, T) ==
    {j \in 1..Len(detected.returns) :
        /\ detected.returns[j].token = T
        /\ GroupPos(i) < detected.returns[j].position
        /\ detected.returns[j].position < GroupEnd(i)}

\* the "<op-word> to" lookahead of the operation of group k reaches the return cue j
ClaimedByToPhrase(k, j) ==
    LET t == Lower(text)
        kw == (CHOOSE c \in {detected.operations[n] : n \in 1..Len(detected.operations)} :
                  c.token = groups[k].operation).keyword
        to_pos == Find(t, " to ", GroupPos(k))
    IN /\ Contains(t, kw \o " to") \/ Contains(t, kw \o "s to")
       /\ to_pos # -1 /\ to_pos < GroupEnd(k)
       /\ to_pos < detected.returns[j].position
       /\ detected.returns[j].position < to_pos + 20

\* every return token is held by the groups as often as there are cues for it
ReturnsHeldOnce ==
    \A T \in RetTokens :
        HeldFrom(T, 1) = Count([j \in 1..Len(detected.returns) |-> detected.returns[j].token], T)

Test002Groups ==
    <<[operation |-> Token("OP:parse"), source |-> Token("SRC:file"),
       returns |-> <<Token("RET:json")>>, params |-> <<>>],
      [operation |-> Token("OP:validate"), source |-> NoToken, returns |-> <<>>, params |-> <<>>],
      [operation |-> Token("OP:transform"), source |-> NoToken,
       returns |-> <<Token("RET:text")>>, params |-> <<>>]>>

CueTokenSeq(cues) == [j \in 1..Len(cues) |-> cues[j].token]

\* C3: every return cue of the Detector appears exactly once in the flattened
\* token sequence, for any input text (a cue no span claims goes to the last
\* group).
C3_NoReturnDropped ==
    pc = "fallback" =>
        \A T \in RetTokens : Count(tokens, T) = Count(CueTokenSeq(detected.returns), T)

\* C4: every parameter cue is attached to the group whose span
\* [operation position, next operation position) contains its position and
\* is emitted with its captured value; Test003 yields [PARAM:key=12345].
C4_ParamAttached ==
    pc = "fallback" =>
        /\ \A j \in 1..Len(detected.params) : \A i \in 1..Len(groups) :
              (GroupPos(i) <= detected.params[j].position
               /\ detected.params[j].position < GroupEnd(i)) =>
                  /\ Count(groups[i].params, detected.params[j].token) = 1
                  /\ Count(tokens, detected.params[j].token) = 1
        /\ text = Test003 => Count(tokens, TokenV("PARAM:key", "12345")) = 1

IndexOf(seq, x) == IF Count(seq, x) = 0 THEN 0 ELSE Min({i \in 1..Len(seq) : seq[i] = x})

\* C5: for Test004 (try cue before the operation, catch and error cues after
\* it) the forward output keeps OP:fetch immediately followed by SRC:api and
\* places that group between CTL:try and the CTL:catch / ERR tokens:
\* [CTL:try][OP:fetch][SRC:api][CTL:catch][ERR:retry][ERR:log].
C5_ControlFlowWraps ==
    (pc = "done" /\ text = Test004) =>
        LET op == IndexOf(tokens, Token("OP:fetch"))
        IN /\ op > 0
           /\ IndexOf(tokens, Token("CTL:try")) > 0
           /\ IndexOf(tokens, Token("CTL:try")) < op
           /\ IndexOf(tokens, Token("SRC:api")) = op + 1
           /\ \A x \in {"CTL:catch", "ERR:retry", "ERR:log"} : IndexOf(tokens, Token(x)) > op + 1
           /\ tokens = <<Token("CTL:try"), Token("OP:fetch"), Token("SRC:api"),
                         Token("CTL:catch"), Token("ERR:retry"), Token("ERR:log")>>

---------------------------------------------------------------------------
(* Direct calls of the Fallback Rule Engine and of the scorer *)

FbTokenTypes == {"CTL:try", "CTL:finally", "OP:validate", "OP:fetch", "SRC:api", "RET:json"}

FbTokenLists == UNION {[1..n -> {Token(x) : x \in FbTokenTypes}] : n \in 0..MaxTokLen}

FbTexts == {"", "Handle it safely", "ensure it works", "Carefully verify", "fetch it"}

InitTokens ==
    /\ fbText \in FbTexts
    /\ fbInput \in FbTokenLists
    /\ fbTokens = fbInput
    /\ fbOnce = <<>>
    /\ fbRuns = 0
    /\ fbConfidence = -1
    /\ TranslateIdle
    /\ ToolIdle
    /\ CallIdle
    /\ ServiceIdle

\* one call of _apply_fallback_rules on the current list
FallbackRun ==
    /\ fbRuns < 2
    /\ fbConfidence = -1
    /\ fbTokens' = ApplyFallbackRules(fbText, fbTokens)
    /\ fbOnce' = IF fbRuns = 0 THEN fbTokens' ELSE fbOnce
    /\ fbRuns' = fbRuns + 1
    /\ UNCHANGED <<fbText, fbInput, fbConfidence, translateVars, toolVars, callVars, serviceVars>>

\* _calculate_confidence of the current list
ScoreTokens ==
    /\ fbConfidence = -1
    /\ fbConfidence' = CalculateConfidence(fbTokens)
    /\ UNCHANGED <<fbText, fbInput, fbTokens, fbOnce, fbRuns, translateVars, toolVars, callVars, serviceVars>>

NextTokens == FallbackRun \/ ScoreTokens

SpecTokens == InitTokens /\ [][NextTokens]_vars

\* C6: applying the Fallback Rule Engine to its own output, with the same
\* text, returns that output unchanged: twice is the same as once.
C6_FallbackIdempotent == fbRuns = 2 => fbTokens = fbOnce

\* a second run after a first run in which both rules added tokens
C6_Witness ==
    /\ fbRuns = 2
    /\ Len(fbOnce) = Len(fbInput) + 3

IsSrcToken(t) == StartsWith(t.type, "SRC:")

\* C7: the confidence lies in [0,1]; it is 0 for the empty sequence; otherwise
\* it is min(1.0, base + 0.3 [operation present] + 0.3 [source or return
\* present] + 0.2 [both]) to two decimals, where base depends only on the
\* token count, does not decrease with it and stays below 1.0.
C7_ConfidenceFormula ==
    fbConfidence # -1 =>
        LET n == Len(fbTokens)
            op == \E i \in 1..n : IsOpToken(fbTokens[i])
            sr == \E i \in 1..n : IsSrcToken(fbTokens[i]) \/ IsRetToken(fbTokens[i])
            sum == BaseScore(n) + (IF op THEN 300 ELSE 0) + (IF sr THEN 300 ELSE 0)
                   + (IF op /\ sr THEN 200 ELSE 0)
        IN /\ fbConfidence \in 0..100
           /\ n = 0 => fbConfidence = 0
           /\ n > 0 => fbConfidence * 10 = (IF sum < 1000 THEN sum ELSE 1000)
           /\ BaseScore(n) < 1000
           /\ BaseScore(n) <= BaseScore(n + 1)

\* a scored list long enough for the base term to saturate, with operation and source
C7_Witness ==
    /\ fbConfidence = 100
    /\ Len(fbTokens) >= 5
    /\ \E i \in 1..Len(fbTokens) : IsOpToken(fbTokens[i])
    /\ \E i \in 1..Len(fbTokens) : IsSrcToken(fbTokens[i])

---------------------------------------------------------------------------
(* get_efficiency tool *)

\* args.english.split(/\s+/).length: one more than the number of whitespace runs
SplitLength(s) ==
    1 + Cardinality({i \in 0..(Len(s) - 1) :
                        IsSpace(CharAt(s, i)) /\ (i = 0 \/ ~IsSpace(CharAt(s, i - 1)))})

IsLineTerminator(c) == c \in {"\n", "\r"}

\* (args.molt.match(/\[.*?\]/g) || []).length, scanning from index i
RECURSIVE BracketMatches(_, _)
BracketMatches(s, i) ==
    LET a == Find(s, "[", i)
        e == IF a = -1 THEN -1 ELSE Find(s, "]", a + 1)
    IN IF a = -1 \/ e = -1 THEN 0
       ELSE IF \E j \in (a + 1)..(e - 1) : IsLineTerminator(CharAt(s, j))
            THEN BracketMatches(s, a + 1)
            ELSE 1 + BracketMatches(s, e + 1)

\* Number.prototype.toFixed(1) of num/den, in tenths: nearest, ties away from zero
ToFixed1(num, den) ==
    LET mag == IF num < 0 THEN -num ELSE num
        r == (2 * 10 * mag + den) \div (2 * den)
    IN IF num < 0 THEN -r ELSE r

\* the percentage clamped at zero
EfficiencyPercent_clamped(t, w) ==
    IF w > 0 /\ t <= w THEN ToFixed1((w - t) * 100, w) ELSE 0

\* englishWords > 0 ? (1 - (moltTokens / englishWords)) * 100 : 0, as printed by toFixed(1)
EfficiencyPercent(t, w) ==
    IF w > 0 THEN ToFixed1((w - t) * 100, w) ELSE 0

EnglishChars == {"a", " "}

MoltChars == {"[", "]", "x", "\n"}

StringsOver(chars, maxLen) ==
    {Concat(ws, 1) : ws \in UNION {[1..n -> chars] : n \in 0..maxLen}}

InitEfficiency ==
    /\ english \in StringsOver(EnglishChars, MaxEnglishLen)
    /\ molt \in StringsOver(MoltChars, MaxMoltLen)
    /\ effPc = "call"
    /\ englishWords = 0
    /\ moltTokens = 0
    /\ efficiency = 0
    /\ syntaxValid = FALSE
    /\ TranslateIdle
    /\ FallbackIdle
    /\ CallIdle
    /\ ServiceIdle

\* handleGetEfficiency
HandleGetEfficiency ==
    /\ effPc = "call"
    /\ englishWords' = SplitLength(english)
    /\ moltTokens' = BracketMatches(molt, 0)
    /\ efficiency' = EfficiencyPercent(moltTokens', englishWords')
    /\ effPc' = "done"
    /\ UNCHANGED <<english, molt, syntaxValid, translateVars, fallbackVars, callVars, serviceVars>>

NextEfficiency == HandleGetEfficiency

SpecEfficiency == InitEfficiency /\ [][NextEfficiency]_vars

WordCount(s) ==
    Cardinality({i \in 0..(Len(s) - 1) :
                    ~IsSpace(CharAt(s, i)) /\ (i = 0 \/ IsSpace(CharAt(s, i - 1)))})

\* C9: the original word count is the number of words of the English text,
\* and when it is 0 (empty or whitespace-only text) the efficiency is
\* reported as 0 for any token string.
C9_NoWordsReportsZero ==
    effPc = "done" =>
        /\ englishWords = WordCount(english)
        /\ WordCount(english) = 0 => efficiency = 0

---------------------------------------------------------------------------
(* Syntax check of a token string *)

\* Object.values(TOKEN_CATEGORIES)
TOKEN_CATEGORIES == {"OP", "SRC", "RET", "PARAM", "CTL", "TYPE", "ERR", "MOD"}

CountChar(s, c) == Cardinality({i \in 0..(Len(s) - 1) : CharAt(s, i) = c})

\* end of the greedy run of characters of a class starting at i
SkipClass(s, i, class) == Min({j \in i..Len(s) : j = Len(s) \/ ~InClass(CharAt(s, j), class)})

\* /\[([A-Z]+):([A-Z_]+)(?:=([^\]]+))?\]/ tried at index i: the index after the match, -1 if none
TokenPatternEnd(s, i) ==
    LET a == SkipClass(s, i + 1, UpperAlpha)
        b == SkipClass(s, a + 1, UpperAlpha \o "_")
        c == Find(s, "]", b + 1)
    IN IF ~(At(s, "[", i) /\ a > i + 1 /\ At(s, ":", a) /\ b > a + 1) THEN -1
       ELSE IF At(s, "]", b) THEN b + 1
       ELSE IF At(s, "=", b) /\ c > b + 1 THEN c + 1
       ELSE -1

\* molt.match(tokenPattern) with the g flag: the matched tokens from index i on
RECURSIVE TokenMatches(_, _)
TokenMatches(s, i) ==
    IF i >= Len(s) THEN <<>>
    ELSE LET e == TokenPatternEnd(s, i)
         IN IF e = -1 THEN TokenMatches(s, i + 1)
            ELSE <<SubSeq(s, i + 1, e)>> \o TokenMatches(s, e)

\* token.match(/\[([A-Z]+):/): the category captured, "" when there is no match
CategoryOf(token) ==
    LET starts == {i \in 0..(Len(token) - 1) :
                      /\ At(token, "[", i)
                      /\ SkipClass(token, i + 1, UpperAlpha) > i + 1
                      /\ At(token, ":", SkipClass(token, i + 1, UpperAlpha))}
    IN IF starts = {} THEN ""
       ELSE SubSeq(token, Min(starts) + 2, SkipClass(token, Min(starts) + 1, UpperAlpha))

\* isValidMoltSyntax
IsValidMoltSyntax(m) ==
    LET matched == TokenMatches(m, 0)
    IN /\ m # ""
       /\ CountChar(m, "[") = CountChar(m, "]")
       /\ matched # <<>>
       /\ \A n \in 1..Len(matched) :
             CategoryOf(matched[n]) = "" \/ CategoryOf(matched[n]) \in TOKEN_CATEGORIES

Chunks == {"[OP:fetch]", "[OP:FETCH]", "[op:fetch]", "[SRC:api]", "[RET:JSON]", "[XX:YY]",
           "[PARAM:key=12345]", "[PARAM:KEY=v]", "[OP:fetch", "OP:FETCH]", "[", "]", "x",
           "[op:FETCH]"}

InitSyntax ==
    /\ molt \in StringsOver(Chunks, MaxChunks)
    /\ english = ""
    /\ effPc = "call"
    /\ englishWords = 0
    /\ moltTokens = 0
    /\ efficiency = 0
    /\ syntaxValid = FALSE
    /\ TranslateIdle
    /\ FallbackIdle
    /\ CallIdle
    /\ ServiceIdle

\* a call of isValidMoltSyntax(molt)
CheckSyntax ==
    /\ effPc = "call"
    /\ syntaxValid' = IsValidMoltSyntax(molt)
    /\ effPc' = "done"
    /\ UNCHANGED <<english, molt, englishWords, moltTokens, efficiency, translateVars, fallbackVars,
                   callVars, serviceVars>>

NextSyntax == CheckSyntax

SpecSyntax == InitSyntax /\ [][NextSyntax]_vars

\* [CATEGORY:subtype] or [CATEGORY:subtype=value] at index i, with a catalog
\* category in upper case and a lower-case subtype: the index after it, -1 if none
CanonicalTokenEnd(s, i) ==
    LET a == SkipClass(s, i + 1, UpperAlpha)
        b == SkipClass(s, a + 1, LowerAlpha \o "_")
        c == Find(s, "]", b + 1)
    IN IF ~(/\ At(s, "[", i) /\ a > i + 1 /\ At(s, ":", a) /\ b > a + 1
            /\ SubSeq(s, i + 2, a) \in TOKEN_CATEGORIES) THEN -1
       ELSE IF At(s, "]", b) THEN b + 1
       ELSE IF At(s, "=", b) /\ c > b + 1 /\ Find(s, "[", b + 1) \notin (b + 1)..c THEN c + 1
       ELSE -1

\* the rest of s from index i on is a concatenation of canonical tokens
RECURSIVE CanonicalFrom(_, _)
CanonicalFrom(s, i) ==
    IF i = Len(s) THEN TRUE
    ELSE CanonicalTokenEnd(s, i) # -1 /\ CanonicalFrom(s, CanonicalTokenEnd(s, i))

IsCanonicalWire(s) == s # "" /\ CanonicalFrom(s, 0)

\* C10: every non-empty concatenation of tokens [CATEGORY:subtype] or
\* [CATEGORY:subtype=value] with an upper-case catalog category and a
\* lower-case subtype is reported syntactically valid.
C10_CanonicalWireAccepted ==
    (effPc = "done" /\ IsCanonicalWire(molt)) => syntaxValid

UpperChar(c) ==
    IF InClass(c, LowerAlpha)
    THEN LET i == CHOOSE j \in 1..26 : SubSeq(LowerAlpha, j, j) = c
         IN SubSeq(UpperAlpha, i, i)
    ELSE c

RECURSIVE Upper(_)
Upper(s) == IF Len(s) = 0 THEN "" ELSE UpperChar(SubSeq(s, 1, 1)) \o Upper(Tail(s))

\* [category:subtype] or [category:subtype=value] at index i, the category made
\* of letters of catClass and a catalog category up to case, the subtype of
\* letters of either case: the index after it, -1 if none
ShapedTokenEnd(s, i, catClass) ==
    LET a == SkipClass(s, i + 1, catClass)
        b == SkipClass(s, a + 1, UpperAlpha \o LowerAlpha \o "_")
        c == Find(s, "]", b + 1)
    IN IF ~(/\ At(s, "[", i) /\ a > i + 1 /\ At(s, ":", a) /\ b > a + 1
            /\ Upper(SubSeq(s, i + 2, a)) \in TOKEN_CATEGORIES) THEN -1
       ELSE IF At(s, "]", b) THEN b + 1
       ELSE IF At(s, "=", b) /\ c > b + 1 /\ Find(s, "[", b + 1) \notin (b + 1)..c THEN c + 1
       ELSE -1

RECURSIVE ShapedFrom(_, _, _)
ShapedFrom(s, i, catClass) ==
    IF i = Len(s) THEN TRUE
    ELSE ShapedTokenEnd(s, i, catClass) # -1 /\ ShapedFrom(s, ShapedTokenEnd(s, i, catClass), catClass)

\* well-formed, with at least one category that is not written in upper case
IsWellFormedOffCase(s) ==
    /\ s # ""
    /\ ShapedFrom(s, 0, UpperAlpha \o LowerAlpha)
    /\ ~ShapedFrom(s, 0, UpperAlpha)

\* C11: a well-formed token string with a category that is not in upper case
\* (such as "[op:fetch]") is reported valid; case alone never makes it invalid.
C11_CaseTolerant ==
    (effPc = "done" /\ IsWellFormedOffCase(molt)) => syntaxValid

\* number of c among the first n characters of s
CountBefore(s, c, n) == Cardinality({i \in 0..(n - 1) : CharAt(s, i) = c})

\* every ']' has an open '[' before it and every '[' is closed
BracketsBalanced(s) ==
    /\ \A n \in 0..Len(s) : CountBefore(s, "]", n) <= CountBefore(s, "[", n)
    /\ CountBefore(s, "[", Len(s)) = CountBefore(s, "]", Len(s))

\* C12: a token string whose brackets are not balanced is reported invalid,
\* also when it has as many '[' as ']' and contains well-formed tokens.
C12_UnbalancedRejected ==
    (effPc = "done" /\ ~BracketsBalanced(molt)) => ~syntaxValid

---------------------------------------------------------------------------
(* The unmolt tool call: dispatcher, handler, Python bridge *)

\* String.prototype.replace(/"/g, '\\"').replace(/\n/g, '\\n')
RECURSIVE Sanitize(_)
Sanitize(s) ==
    IF Len(s) = 0 THEN ""
    ELSE LET c == SubSeq(s, 1, 1)
         IN (IF c = "\"" THEN "\\\"" ELSE IF c = "\n" THEN "\\n" ELSE c) \o Sanitize(Tail(s))

\* the line of the generated Python program that carries the argument
FromMoltCode(m) == "result = translate_from_molt(\"" \o Sanitize(m) \o "\")"

\* String.prototype.trim
Trim(s) ==
    LET keep == {i \in 1..Len(s) : ~IsSpace(SubSeq(s, i, i))}
    IN IF keep = {} THEN "" ELSE SubSeq(s, Min(keep), CHOOSE i \in keep : \A j \in keep : j <= i)

NoParse == [end |-> -1, kind |-> "none", str |-> "", text |-> Undefined]

\* a JSON string without escapes starting at index i
JsonString(s, i) ==
    LET e == Find(s, "\"", i + 1)
    IN IF ~At(s, "\"", i) \/ e = -1 THEN NoParse
       ELSE IF \E j \in (i + 1)..(e - 1) : CharAt(s, j) \in {"\n", "\r", "\t", "\\"} THEN NoParse
       ELSE [end |-> e + 1, kind |-> "string", str |-> SubSeq(s, i + 2, e), text |-> Undefined]

\* null or a string starting at index i
JsonScalar(s, i) ==
    IF At(s, "null", i) THEN [end |-> i + 4, kind |-> "null", str |-> "", text |-> Undefined]
    ELSE JsonString(s, i)

\* the members of an object from index i on; txt is the value of "text" so far
RECURSIVE JsonMembers(_, _, _)
JsonMembers(s, i, txt) ==
    LET k == JsonString(s, i)
        c == SkipSpaces(s, IF k.end = -1 THEN i ELSE k.end)
        v == JsonScalar(s, SkipSpaces(s, c + 1))
        n == SkipSpaces(s, IF v.end = -1 THEN i ELSE v.end)
        t == IF k.str = "text" THEN [kind |-> v.kind, str |-> v.str] ELSE txt
    IN IF k.end = -1 \/ ~At(s, ":", c) \/ v.end = -1 THEN NoParse
       ELSE IF At(s, "}", n) THEN [end |-> n + 1, kind |-> "object", str |-> "", text |-> t]
       ELSE IF At(s, ",", n) THEN JsonMembers(s, SkipSpaces(s, n + 1), t)
       ELSE NoParse

\* a JSON value starting at index i: null, a string, or an object of scalars
JsonValue(s, i) ==
    IF At(s, "{", i)
    THEN IF At(s, "}", SkipSpaces(s, i + 1))
         THEN [end |-> SkipSpaces(s, i + 1) + 1, kind |-> "object", str |-> "", text |-> Undefined]
         ELSE JsonMembers(s, SkipSpaces(s, i + 1), Undefined)
    ELSE JsonScalar(s, i)

\* JSON.parse(output): kind "none" stands for a SyntaxError
JsonParse(s) ==
    LET v == JsonValue(s, SkipSpaces(s, 0))
    IN IF v.end = -1 \/ SkipSpaces(s, v.end) # Len(s) THEN NoParse ELSE v

\* `Error: ${error instanceof Error ? error.message : 'Unknown error'}`, without the prefix
ErrorText_bare(message) == message

\* `Error: ${error instanceof Error ? error.message : 'Unknown error'}`
ErrorText(message) == "Error: " \o message

\* { content: [{ type: 'text', text }] }
TextResult(t) ==
    [content |-> <<[type |-> "text", text |-> t]>>, isError |-> FALSE, thrown |-> FALSE, error |-> ""]

\* an exception leaving a function
Throw(message) == [content |-> <<>>, isError |-> FALSE, thrown |-> TRUE, error |-> message]

\* try { switch (name) ... } catch (error) { ... isError: true } of the request handler
Dispatch(outcome) ==
    IF outcome.thrown
    THEN [content |-> <<[type |-> "text", text |-> Str(ErrorText(outcome.error))]>>,
          isError |-> TRUE, thrown |-> FALSE, error |-> ""]
    ELSE outcome

\* handleTranslateFromMolt from the point where translateFromMolt has settled;
\* p is the promise of executePython, v the variant of the handler
HandleTranslateFromMolt(v, p) ==
    LET result == JsonParse(p.value)
    IN IF p.state = "rejected" THEN TextResult(Str(ErrorText(p.value)))
       ELSE IF result.kind = "none"
       THEN TextResult(Str(ErrorText("Unexpected token in JSON")))
       ELSE IF result.kind = "null"
       THEN TextResult(Str(ErrorText("Cannot read properties of null (reading 'text')")))
       ELSE IF v = "logged" /\ result.text.kind # "string"
       THEN TextResult(Str(ErrorText("Cannot read properties of " \o result.text.kind
                                      \o " (reading 'length')")))
       ELSE TextResult(result.text)

\* the handler called with an argument object that has no molt string
HandleWithoutMolt(v) ==
    IF v = "logged" THEN Throw("Cannot read properties of undefined (reading 'length')")
    ELSE TextResult(Str(ErrorText("Cannot read properties of undefined (reading 'replace')")))

MaxStdoutLen == 14   \* characters of stdout collected from the child

ToolNames == {"unmolt", "unknown_tool"}

\* molt arguments: empty, well-formed, malformed, and ones with a double quote,
\* a newline, a backslash, a backslash before n and a backslash before a quote
MoltArgs == {"", "[OP:fetch]", "[OP:fetch", "say \"hi\"", "a\nb", "\\", "a\\nb", "\\\");x(\""}

\* what print(json.dumps(output)) or a failing program may write, whole or in pieces
StdoutChunks == {"{\"text\":\"hi\"}\n", "{\"text\":null}\n", "{}\n", "null\n", "\"hi\"\n", "oops\n",
                 "{\"text\":", "\"hi\"}\n"}

InitUnmolt ==
    /\ toolName \in ToolNames
    /\ variant \in {"plain", "logged"}
    /\ callArgs \in {Undefined} \cup {Str(m) : m \in MoltArgs}
    /\ callPc = "request"
    /\ pythonCode = "" /\ child = "none" /\ exitCode = "none"
    /\ stdout = "" /\ stderr = "" /\ timer = "none"
    /\ promise = NoPromise
    /\ response = NoResponse
    /\ TranslateIdle
    /\ FallbackIdle
    /\ ToolIdle
    /\ ServiceIdle

\* the CallToolRequestSchema handler up to the first await that has to wait:
\* translateFromMolt builds the program and executePython spawns the child
CallTool ==
    /\ callPc = "request"
    /\ IF toolName # "unmolt"
       THEN /\ response' = Dispatch(Throw("Unknown tool: " \o toolName))
            /\ callPc' = "done"
            /\ UNCHANGED <<pythonCode, child, timer, promise>>
       ELSE IF callArgs.kind # "string"
       THEN /\ response' = Dispatch(HandleWithoutMolt(variant))
            /\ callPc' = "done"
            /\ UNCHANGED <<pythonCode, child, timer, promise>>
       ELSE /\ pythonCode' = FromMoltCode(callArgs.str)
            /\ child' = "running"
            /\ timer' = "armed"
            /\ promise' = Promise("pending", "")
            /\ callPc' = "awaiting"
            /\ UNCHANGED response
    /\ UNCHANGED <<toolName, variant, callArgs, exitCode, stdout, stderr, translateVars, fallbackVars,
                   toolVars, serviceVars>>

\* proc.stdout.on('data')
ChildStdout ==
    /\ child \in {"running", "killed"}
    /\ \E chunk \in StdoutChunks :
          /\ Len(stdout) + Len(chunk) <= MaxStdoutLen
          /\ stdout' = stdout \o chunk
    /\ UNCHANGED <<toolName, variant, callArgs, callPc, pythonCode, child, exitCode, stderr, timer,
                   promise, response, translateVars, fallbackVars, toolVars, serviceVars>>

\* proc.stderr.on('data')
ChildStderr ==
    /\ child \in {"running", "killed"}
    /\ stderr = ""
    /\ stderr' = "Traceback"
    /\ UNCHANGED <<toolName, variant, callArgs, callPc, pythonCode, child, exitCode, stdout, timer,
                   promise, response, translateVars, fallbackVars, toolVars, serviceVars>>

\* a promise whose every resolve / reject call took effect
Settle_always(p, state, value) == Promise(state, value)

\* resolve / reject of a promise: only a pending promise changes
Settle(p, state, value) == IF p.state = "pending" THEN Promise(state, value) ELSE p

\* the code of a 'close' event; a child that ended on its own just before
\* proc.kill() still reports its exit code, a terminated one reports null
ExitCodes == {"0", "1", "null"}

\* proc.on('close')
ChildClose ==
    /\ child \in {"running", "killed"}
    /\ \E code \in ExitCodes :
          /\ exitCode' = code
          /\ promise' = IF code # "0"
                        THEN Settle(promise, "rejected",
                                    "Python execution failed with code " \o code \o ": " \o stderr)
                        ELSE Settle(promise, "resolved", Trim(stdout))
    /\ child' = "closed"
    /\ timer' = IF timer = "armed" THEN "cleared" ELSE timer
    /\ UNCHANGED <<toolName, variant, callArgs, callPc, pythonCode, stdout, stderr, response,
                   translateVars, fallbackVars, toolVars, serviceVars>>

\* the setTimeout callback of executePython
TimerFires ==
    /\ timer = "armed"
    /\ timer' = "fired"
    /\ child' = "killed"
    /\ promise' = Settle(promise, "rejected", "Python execution timeout (30000ms)")
    /\ UNCHANGED <<toolName, variant, callArgs, callPc, pythonCode, exitCode, stdout, stderr, response,
                   translateVars, fallbackVars, toolVars, serviceVars>>

\* the handler resumes after its await and the request handler returns
Resume ==
    /\ callPc = "awaiting"
    /\ promise.state \in {"resolved", "rejected"}
    /\ response' = Dispatch(HandleTranslateFromMolt(variant, promise))
    /\ callPc' = "done"
    /\ UNCHANGED <<toolName, variant, callArgs, pythonCode, child, exitCode, stdout, stderr, timer,
                   promise, translateVars, fallbackVars, toolVars, serviceVars>>

NextUnmolt == CallTool \/ ChildStdout \/ ChildStderr \/ ChildClose \/ TimerFires \/ Resume

SpecUnmolt == InitUnmolt /\ [][NextUnmolt]_vars

\* the call failed: no molt string, the bridge rejected, or the output is no JSON
CallFailed ==
    \/ callArgs.kind # "string"
    \/ promise.state = "rejected"
    \/ promise.state = "resolved" /\ JsonParse(promise.value).kind = "none"

---------------------------------------------------------------------------
(* Parameter extraction of the forward call, tokens added as they are matched *)

MaxParamPhrases == 3   \* phrases concatenated into a text with parameters

ParamPhrases == {"find ", "query: ", "[x] ", "key k-1 ", "timeout 5s ", "limit 3 ", "'q' "}

ParamTexts == {Concat(ws, 1) : ws \in UNION {[1..n -> ParamPhrases] : n \in 0..MaxParamPhrases}}

InitParams ==
    /\ pc = "params"
    /\ text \in ParamTexts
    /\ detected = NoCues
    /\ groups = <<>>
    /\ tokens = <<>>
    /\ confidence = -1
    /\ FallbackIdle
    /\ ToolIdle
    /\ CallIdle
    /\ ServiceIdle

\* Enhanced parameter extraction: each pattern that matches adds its token
ExtractParameters ==
    /\ pc = "params"
    /\ tokens' = tokens \o CueTokens(DetectParams(Lower(text)), 1)
    /\ pc' = "done"
    /\ UNCHANGED <<text, detected, groups, confidence, fallbackVars, toolVars, callVars, serviceVars>>

NextParams == ExtractParameters

SpecParams == InitParams /\ [][NextParams]_vars

\* C14: no token emitted by forward translation carries a value that contains
\* '[' or ']', so that its serialization [TYPE=value] parses back to the same token.
C14_ValuesBracketFree ==
    pc = "done" =>
        \A i \in 1..Len(tokens) :
            tokens[i].value = NoValue
            \/ (~Contains(tokens[i].value, "[") /\ ~Contains(tokens[i].value, "]"))

---------------------------------------------------------------------------
(* Claims about the fallback rules *)

CautionWords == <<"safe", "careful", "graceful", "handle">>

AssuranceWords == <<"ensure", "guarantee", "verify">>

\* C15: when the text contains a caution word and the token list holds no
\* CTL:try token, the list returned by the engine holds CTL:try and CTL:catch.
C15_CautionAddsTryCatch ==
    (fbRuns >= 1 /\ AnyWordIn(Lower(fbText), CautionWords) /\ ~AnyTypeIs(fbInput, "CTL:try")) =>
        (AnyTypeIs(fbTokens, "CTL:try") /\ AnyTypeIs(fbTokens, "CTL:catch"))

RECURSIVE IsSubsequence(_, _)
IsSubsequence(a, b) ==
    IF a = <<>> THEN TRUE
    ELSE IF b = <<>> THEN FALSE
    ELSE IF Head(a) = Head(b) THEN IsSubsequence(Tail(a), Tail(b))
    ELSE IsSubsequence(a, Tail(b))

\* C17: the engine only adds tokens: the list it was given is a subsequence
\* of the list it returns, for every list and every text.
C17_FallbackMonotonic == fbRuns >= 1 => IsSubsequence(fbInput, fbTokens)

\* a non-empty list to which both rules added tokens
C17_Witness ==
    /\ fbRuns = 1
    /\ fbInput = <<Token("OP:fetch"), Token("SRC:api")>>
    /\ fbTokens = fbInput \o <<Token("CTL:try"), Token("CTL:catch"), Token("OP:validate")>>

---------------------------------------------------------------------------
(* Claims about the sources of the operation groups *)

\* the cue of cues with the lowest text position
LowestCue(cues) ==
    CHOOSE c \in {cues[i] : i \in 1..Len(cues)} :
        \A i \in 1..Len(cues) : c.position <= cues[i].position

DistinctSourcePositions ==
    \A i, j \in 1..Len(detected.sources) :
        i # j => detected.sources[i].position # detected.sources[j].position

\* C18: when an operation cue and a source cue are detected, the group of the
\* operation cue lowest in the text holds the source cue lowest in the text,
\* whether that source lies before or after the operation.
C18_FirstOperationSource ==
    (pc \in {"flatten", "fallback", "score", "done"}
     /\ detected.operations # <<>> /\ detected.sources # <<>>
     /\ DistinctOpPositions /\ DistinctSourcePositions) =>
        /\ groups[1].operation = LowestCue(detected.operations).token
        /\ groups[1].source = LowestCue(detected.sources).token

\* the lowest source follows the first operation, and was detected after a later one
C18_Witness ==
    /\ pc = "done"
    /\ text = "fetch db api "
    /\ groups[1].operation = Token("OP:fetch")
    /\ groups[1].source = Token("SRC:db")

\* the source tokens held by the groups before the k-th
HeldSources(k) == {groups[m].source : m \in 1..(k - 1)} \ {NoToken}

\* the unclaimed source cues strictly between the previous operation and the k-th
SourcesBetween(k) ==
    {c \in {detected.sources[j] : j \in 1..Len(detected.sources)} :
        /\ c.token \notin HeldSources(k)
        /\ GroupPos(k - 1) < c.position
        /\ c.position < GroupPos(k)}

\* C19: every operation after the first takes, of the unclaimed source cues
\* strictly between the previous operation and itself, the one nearest to it,
\* and has no source when there is none.
C19_LaterOperationNearestSource ==
    (pc \in {"flatten", "fallback", "score", "done"} /\ DistinctOpPositions) =>
        \A k \in 2..Len(groups) :
            IF SourcesBetween(k) = {} THEN groups[k].source = NoToken
            ELSE \E c \in SourcesBetween(k) :
                    /\ \A d \in SourcesBetween(k) : d.position <= c.position
                    /\ groups[k].source = c.token

\* C20: every group holds at most one source token and no source cue is
\* held by two groups: each operation of the output is followed by at most one
\* SRC token, and the SRC tokens of the output are pairwise different cues.
C20_SourceClaimedOnce ==
    pc \in {"fallback", "score", "done"} =>
        /\ \A i, j \in 1..Len(groups) :
              (i # j /\ groups[i].source # NoToken) => groups[i].source # groups[j].source
        /\ \A i \in 1..Len(groups) :
              groups[i].source # NoToken =>
                  \E j \in 1..Len(detected.sources) : detected.sources[j].token = groups[i].source
        /\ Cardinality({i \in 1..Len(tokens) : IsSrcToken(tokens[i])})
              = Cardinality({i \in 1..Len(groups) : groups[i].source # NoToken})
        /\ \A i, j \in 1..Len(tokens) :
              (i # j /\ IsSrcToken(tokens[i])) => tokens[i] # tokens[j]

\* the only source lies between two operations and was claimed by the first
C20_Witness ==
    /\ pc = "done"
    /\ text = "fetch api parse "
    /\ groups[1].source = Token("SRC:api")
    /\ groups[2].source = NoToken

---------------------------------------------------------------------------
(* Claims about the Detector and the order of the output *)

\* the single-occurrence categories: the cues detected and the table they come from
SingleCategories ==
    << [cues |-> detected.operations, table |-> op_keywords],
       [cues |-> detected.sources,    table |-> src_keywords],
       [cues |-> detected.modifiers,  table |-> mod_keywords],
       [cues |-> detected.control,    table |-> ctl_keywords],
       [cues |-> detected.errors,     table |-> err_keywords] >>

\* offsets at which a keyword of kws occurs in t
SynonymOffsets(t, kws) == {p \in 0..Len(t) : \E n \in 1..Len(kws) : At(t, kws[n], p)}

\* at most one cue of the type, at the lowest offset of any of its keywords
FirstOccurrenceKept(cues, type, kws) ==
    LET own == {i \in 1..Len(cues) : cues[i].token = Token(type)}
    IN /\ Cardinality(own) <= 1
       /\ \A i \in own : \A p \in SynonymOffsets(Lower(text), kws) : cues[i].position <= p

\* C21: in the single-occurrence categories the Detector emits at most one
\* cue per subtype, and no synonym of the subtype occurs in the text at a
\* smaller offset than the position recorded in the cue.
C21_FirstMatchingPosition ==
    pc \in {"group", "flatten", "fallback", "score", "done"} =>
        /\ \A c \in 1..Len(SingleCategories) :
              \A e \in 1..Len(SingleCategories[c].table) :
                  FirstOccurrenceKept(SingleCategories[c].cues,
                                      SingleCategories[c].table[e].type,
                                      SingleCategories[c].table[e].keywords)
        /\ \A e \in 1..Len(type_keywords) :
              FirstOccurrenceKept(detected.types, type_keywords[e].type, type_keywords[e].keywords)

\* C22: the Detector emits a return cue for every occurrence of every
\* return-type phrase in the text, whatever other return types were detected.
C22_EveryReturnOccurrence ==
    pc \in {"group", "flatten", "fallback", "score", "done"} =>
        \A e \in 1..Len(ret_keywords) :
            \A p \in SynonymOffsets(Lower(text), ret_keywords[e].keywords) :
                \E i \in 1..Len(detected.returns) :
                    /\ detected.returns[i].token = Token(ret_keywords[e].type)
                    /\ detected.returns[i].position = p

\* place of a token's category in the output order
CategoryRank(t) ==
    IF StartsWith(t.type, "MOD:") THEN 1
    ELSE IF StartsWith(t.type, "CTL:") THEN 2
    ELSE IF StartsWith(t.type, "ERR:") THEN 3
    ELSE IF StartsWith(t.type, "TYPE:") THEN 5
    ELSE 4

\* C23: in the sequence returned by forward translation all MOD tokens come
\* first, then CTL, then ERR, then the operation groups, then TYPE; tokens
\* added by the fallback rules stand in their category's segment as well.
C23_CategoryOrder ==
    pc \in {"score", "done"} =>
        \A i, j \in 1..Len(tokens) : i < j => CategoryRank(tokens[i]) <= CategoryRank(tokens[j])

---------------------------------------------------------------------------
(* The communication bridge: sendToAgent, resetChannel *)

MaxFileLines == 3   \* lines the message file can take

\* the arguments moltMessage of sendToAgent; valid is the verdict of isValidMoltMessage
Messages == {[body |-> "[OP:fetch]", valid |-> TRUE], [body |-> "fetch", valid |-> FALSE]}

\* a validation that lets every message pass
IsValidMoltMessage_always(m) == TRUE

\* isValidMoltMessage(moltMessage)
IsValidMoltMessage(m) == m.valid

\* the line envelopeToJson(createMessage('glm4.7', target, moltMessage)) of call c
EnvelopeLine(c) == [valid |-> TRUE, from |-> "glm4.7", id |-> c]

\* the primary test without the availability flag
PrimaryEligible_ignoringFlag(available, useFileFallback) == ~useFileFallback

\* this.isPrimaryAvailable && !options.useFileFallback
PrimaryEligible(available, useFileFallback) == available /\ ~useFileFallback

\* a delivered field that names the channel whatever the outcome
Delivered_always(success, channel) == channel

\* delivered: result.success ? channel : 'failed'
Delivered(success, channel) == IF success THEN channel ELSE "failed"

SendResult(success, channel, error) ==
    [success |-> success, delivered |-> Delivered(success, channel), error |-> error]

InitBridge ==
    /\ BridgeIdle
    /\ CacheIdle
    /\ TranslateIdle
    /\ FallbackIdle
    /\ ToolIdle
    /\ CallIdle

\* sendToAgent from its start to its first await, or to its return for an invalid message
SendToAgent(c) ==
    /\ sends[c].pc = "idle"
    /\ \E m \in Messages, opt \in BOOLEAN :
          sends' = [sends EXCEPT ![c] =
              IF ~IsValidMoltMessage(m)
              THEN [@ EXCEPT !.pc = "done", !.valid = m.valid, !.useFileFallback = opt,
                             !.result = [success |-> FALSE, delivered |-> "failed",
                                         error |-> "Invalid MoltLang message: " \o m.body]]
              ELSE IF PrimaryEligible(isPrimaryAvailable, opt)
              THEN [@ EXCEPT !.pc = "primary", !.valid = m.valid, !.useFileFallback = opt,
                             !.attempted = TRUE]
              ELSE [@ EXCEPT !.pc = "file", !.valid = m.valid, !.useFileFallback = opt]]
    /\ UNCHANGED <<isPrimaryAvailable, file, recv, cacheVars, translateVars, fallbackVars, toolVars,
                   callVars>>

\* sendViaSessionsSend returns: success is  result.success || true
PrimaryReturns(c) ==
    /\ sends[c].pc = "primary"
    /\ sends' = [sends EXCEPT ![c].pc = "done", ![c].result = SendResult(TRUE, "primary", "")]
    /\ UNCHANGED <<isPrimaryAvailable, file, recv, cacheVars, translateVars, fallbackVars, toolVars,
                   callVars>>

\* sendViaSessionsSend throws (no token, fetch fails, response not ok): the inner catch
PrimaryThrows(c) ==
    /\ sends[c].pc = "primary"
    /\ isPrimaryAvailable' = FALSE
    /\ sends' = [sends EXCEPT ![c].pc = "file"]
    /\ UNCHANGED <<file, recv, cacheVars, translateVars, fallbackVars, toolVars, callVars>>

\* sendViaFileStorage appends the line
FileAppended(c) ==
    /\ sends[c].pc = "file"
    /\ Len(file) < MaxFileLines
    /\ file' = Append(file, EnvelopeLine(c))
    /\ sends' = [sends EXCEPT ![c].pc = "done", ![c].appended = TRUE,
                              ![c].result = SendResult(TRUE, "fallback", "")]
    /\ UNCHANGED <<isPrimaryAvailable, recv, cacheVars, translateVars, fallbackVars, toolVars,
                   callVars>>

\* mkdir or appendFile throws inside sendViaFileStorage
FileFails(c) ==
    /\ sends[c].pc = "file"
    /\ sends' = [sends EXCEPT ![c].pc = "done",
                              ![c].result = SendResult(FALSE, "fallback", "File storage error")]
    /\ UNCHANGED <<isPrimaryAvailable, file, recv, cacheVars, translateVars, fallbackVars, toolVars,
                   callVars>>

\* the caller has taken the result; the slot is free for another call
CallReturned(c) ==
    /\ sends[c].pc = "done"
    /\ sends' = [sends EXCEPT ![c] = NoSend]
    /\ UNCHANGED <<isPrimaryAvailable, file, recv, cacheVars, translateVars, fallbackVars, toolVars,
                   callVars>>

\* resetChannel
ResetChannel ==
    /\ isPrimaryAvailable' = TRUE
    /\ UNCHANGED <<file, sends, recv, cacheVars, translateVars, fallbackVars, toolVars, callVars>>

NextBridge ==
    \/ \E c \in Calls : SendToAgent(c)
    \/ \E c \in Calls : PrimaryReturns(c)
    \/ \E c \in Calls : PrimaryThrows(c)
    \/ \E c \in Calls : FileAppended(c)
    \/ \E c \in Calls : FileFails(c)
    \/ \E c \in Calls : CallReturned(c)
    \/ ResetChannel

SpecBridge == InitBridge /\ [][NextBridge]_vars

C27_InvalidRejectedFirst ==
    [][\A c \in Calls :
          (sends[c].pc = "idle" /\ sends'[c].pc # "idle" /\ ~sends'[c].valid) =>
              /\ sends'[c].pc = "done"
              /\ sends'[c].result.success = FALSE
              /\ sends'[c].result.delivered = "failed"
              /\ sends'[c].result.error # ""
              /\ ~sends'[c].attempted /\ ~sends'[c].appended
              /\ file' = file
              /\ isPrimaryAvailable' = isPrimaryAvailable
      ]_vars

\* an invalid message rejected while the primary channel was available and not bypassed
C27_Witness ==
    /\ isPrimaryAvailable
    /\ sends[1].pc = "done" /\ ~sends[1].valid /\ ~sends[1].useFileFallback
    /\ sends[1].result = [success |-> FALSE, delivered |-> "failed",
                          error |-> "Invalid MoltLang message: fetch"]
    /\ file = <<>>

\* C28: the promise of sendToAgent never rejects, and in every result success
\* holds exactly when delivered is 'primary' or 'fallback' (delivered is
\* 'failed' exactly when success is false); delivered is 'fallback' only if
\* the line of the call was appended to the message file.
C28_ResultConsistent ==
    \A c \in Calls :
        /\ ~sends[c].rejected
        /\ sends[c].pc = "done" =>
              /\ sends[c].result.success <=> sends[c].result.delivered \in {"primary", "fallback"}
              /\ sends[c].result.delivered = "failed" <=> ~sends[c].result.success
              /\ sends[c].result.delivered = "fallback" =>
                     (sends[c].appended /\ \E i \in 1..Len(file) : file[i] = EnvelopeLine(c))

\* a primary attempt that threw, followed by a failure of the file storage as well
C28_Witness ==
    /\ sends[1].pc = "done" /\ sends[1].attempted /\ ~sends[1].appended
    /\ sends[1].result = [success |-> FALSE, delivered |-> "failed", error |-> "File storage error"]
    /\ sends[2].pc = "done" /\ sends[2].result.delivered = "fallback"

---------------------------------------------------------------------------
(* The communication bridge: receiveFromAgent *)

\* lines of the message file: envelopes of two agents and a line that
\* envelopeFromJson does not accept
LineValues ==
    {[valid |-> TRUE, from |-> "glm4.7", id |-> 1], [valid |-> TRUE, from |-> "jemma", id |-> 2],
     [valid |-> TRUE, from |-> "jemma", id |-> 3], [valid |-> FALSE, from |-> "", id |-> 0]}

Files == UNION {[1..n -> LineValues] : n \in 0..MaxFileLines}

\* the limit arguments tried; 10 is the default
Limits == {0, 1, 2, 3, 10}

\* the agentId arguments tried; "" stands for an omitted one
AgentIds == {"", "glm4.7", "jemma"}

\* lines.reverse()
Reverse(lines) == [i \in 1..Len(lines) |-> lines[Len(lines) + 1 - i]]

\* the  for (const line of lines.reverse())  loop from the i-th line on
RECURSIVE ReceiveLoop(_, _, _, _, _)
ReceiveLoop(lines, i, messages, limit, agentId) ==
    IF i > Len(lines) THEN messages
    ELSE IF ~lines[i].valid THEN ReceiveLoop(lines, i + 1, messages, limit, agentId)
    ELSE IF agentId # "" /\ lines[i].from # agentId
    THEN ReceiveLoop(lines, i + 1, messages, limit, agentId)
    ELSE IF Len(messages) + 1 >= limit THEN Append(messages, lines[i])
    ELSE ReceiveLoop(lines, i + 1, Append(messages, lines[i]), limit, agentId)

InitReceive ==
    /\ isPrimaryAvailable = TRUE
    /\ file \in Files
    /\ sends = [c \in Calls |-> NoSend]
    /\ recv = NoRecv
    /\ CacheIdle
    /\ TranslateIdle
    /\ FallbackIdle
    /\ ToolIdle
    /\ CallIdle

\* receiveFromAgent(limit, agentId); readable tells whether fs.readFile succeeds
ReceiveFromAgent ==
    /\ \E limit \in Limits, agentId \in AgentIds, readable \in BOOLEAN :
          recv' = [called |-> TRUE, limit |-> limit, agentId |-> agentId, readable |-> readable,
                   result |-> IF readable THEN ReceiveLoop(Reverse(file), 1, <<>>, limit, agentId)
                              ELSE <<>>]
    /\ UNCHANGED <<isPrimaryAvailable, file, sends, cacheVars, translateVars, fallbackVars, toolVars,
                   callVars>>

NextReceive == ReceiveFromAgent

SpecReceive == InitReceive /\ [][NextReceive]_vars

\* the valid envelopes of lines whose sender is agentId (all of them for ""), in order
RECURSIVE Matching(_, _)
Matching(lines, agentId) ==
    IF lines = <<>> THEN <<>>
    ELSE (IF Head(lines).valid /\ (agentId = "" \/ Head(lines).from = agentId)
          THEN <<Head(lines)>> ELSE <<>>) \o Matching(Tail(lines), agentId)

---------------------------------------------------------------------------
(* The translation cache *)

\* Date.now() runs over 0..MaxTime; one unit of time is half an hour
MaxTime == 3

\* private defaultTTL = 3600000, one hour
defaultTTL == 2

CacheTexts == {"a", "from_molt:a"}

Directions == {"to_molt", "from_molt"}

\* the ttl argument of set: omitted, or a number of time units
NoTtl == [given |-> FALSE, value |-> 0]

Ttl(n) == [given |-> TRUE, value |-> n]

TtlArgs == {NoTtl, Ttl(0), Ttl(1)}

\* `${direction}:${text}`
generateKey(t, direction) == direction \o ":" \o t

\* ttl || this.defaultTTL : an omitted ttl and a ttl of 0 are both falsy
StoredTtl(ttl) == IF ttl.given /\ ttl.value # 0 THEN ttl.value ELSE defaultTTL

\* now > entry.cached_at + entry.ttl
Expired(entry, time) == time > entry.cached_at + entry.ttl

InitCache ==
    /\ cache = {}
    /\ now = 0
    /\ lastSet = {}
    /\ got = NoGet
    /\ BridgeIdle
    /\ TranslateIdle
    /\ FallbackIdle
    /\ ToolIdle
    /\ CallIdle

\* the clock advances
Tick ==
    /\ now < MaxTime
    /\ now' = now + 1
    /\ got' = NoGet
    /\ UNCHANGED <<cache, lastSet, bridgeVars, translateVars, fallbackVars, toolVars, callVars>>

\* setCachedTranslation(text, direction, result, ttl)
SetCachedTranslation ==
    /\ \E t \in CacheTexts, direction \in Directions, ttl \in TtlArgs :
          LET key == generateKey(t, direction)
          IN /\ cache' = {e \in cache : e.key # key}
                            \cup {[key |-> key, cached_at |-> now, ttl |-> StoredTtl(ttl)]}
             /\ lastSet' = {r \in lastSet : ~(r.text = t /\ r.direction = direction)}
                              \cup {[text |-> t, direction |-> direction, time |-> now, ttl |-> ttl]}
    /\ got' = NoGet
    /\ UNCHANGED <<now, bridgeVars, translateVars, fallbackVars, toolVars, callVars>>

\* getCachedTranslation(text, direction)
GetCachedTranslation ==
    /\ \E t \in CacheTexts, direction \in Directions :
          LET key == generateKey(t, direction)
              found == {e \in cache : e.key = key}
              live == {e \in found : ~Expired(e, now)}
          IN /\ cache' = {e \in cache : e.key # key} \cup live
             /\ got' = [called |-> TRUE, text |-> t, direction |-> direction, time |-> now,
                        hit |-> live # {},
                        cached_at |-> IF live # {} THEN (CHOOSE e \in live : TRUE).cached_at ELSE 0,
                        removed |-> found # {} /\ live = {}]
    /\ UNCHANGED <<now, lastSet, bridgeVars, translateVars, fallbackVars, toolVars, callVars>>

\* clearExpiredCache()
ClearExpired ==
    /\ \E e \in cache : Expired(e, now)
    /\ cache' = {e \in cache : ~Expired(e, now)}
    /\ got' = NoGet
    /\ UNCHANGED <<now, lastSet, bridgeVars, translateVars, fallbackVars, toolVars, callVars>>

NextCache ==
    \/ Tick
    \/ SetCachedTranslation
    \/ GetCachedTranslation
    \/ ClearExpired

SpecCache == InitCache /\ [][NextCache]_vars

\* the time to live the caller asked for: the argument, or one hour when omitted
RequestedTtl(ttl) == IF ttl.given THEN ttl.value ELSE defaultTTL

\* C25: a get at time t returns an entry only if the most recent set for
\* exactly that (text, direction) happened at s with t <= s + ttl (one hour
\* when no ttl was given), and the entry served is that one; after a get that
\* returns null the cache holds no entry for the pair.
C25_NeverExpiredOrForeign ==
    got.called =>
        LET last == {r \in lastSet : r.text = got.text /\ r.direction = got.direction}
        IN /\ got.hit => \E r \in last : /\ got.time <= r.time + RequestedTtl(r.ttl)
                                         /\ got.cached_at = r.time
           /\ ~got.hit => \A e \in cache : e.key # generateKey(got.text, got.direction)

---------------------------------------------------------------------------
(* executePython: one outcome, decided by the first of 'close' and the timeout *)

\* a timer that is armed and not cleared runs its callback
SpecUnmoltFair == SpecUnmolt /\ WF_vars(TimerFires)

Settled == promise.state \in {"resolved", "rejected"}

\* the three ways a pending promise of executePython may be settled
ClosedFirstWithZero ==
    /\ timer = "armed" /\ timer' = "cleared" /\ child' = "closed" /\ exitCode' = "0"
    /\ promise' = Promise("resolved", Trim(stdout))

ClosedFirstWithFailure ==
    /\ timer = "armed" /\ timer' = "cleared" /\ child' = "closed" /\ exitCode' \in {"1", "null"}
    /\ promise' = Promise("rejected",
                          "Python execution failed with code " \o exitCode' \o ": " \o stderr)

TimedOutFirst ==
    /\ timer = "armed" /\ timer' = "fired" /\ child = "running" /\ child' = "killed"
    /\ promise' = Promise("rejected", "Python execution timeout (30000ms)")

---------------------------------------------------------------------------
(* The argument inside the generated Python program *)

\* the text in front of the argument on its line of the program
CallPrefix == "result = translate_from_molt(\""

\* Python's reading of a "..." literal from position i on, acc being what is
\* decoded so far: the closing quote ends it, a backslash takes the next
\* character with it, a line end or the end of the program leaves it open
RECURSIVE PyString(_, _, _)
PyString(code, i, acc) ==
    IF i > Len(code) THEN [closed |-> FALSE, end |-> i, value |-> acc]
    ELSE LET c == SubSeq(code, i, i)
         IN IF c = "\"" THEN [closed |-> TRUE, end |-> i, value |-> acc]
            ELSE IF c = "\n" THEN [closed |-> FALSE, end |-> i, value |-> acc]
            ELSE IF c # "\\" THEN PyString(code, i + 1, acc \o c)
            ELSE IF i = Len(code) THEN [closed |-> FALSE, end |-> i, value |-> acc]
            ELSE LET d == SubSeq(code, i + 1, i + 1)
                 IN PyString(code, i + 2,
                             acc \o (IF d = "n" THEN "\n"
                                     ELSE IF d = "t" THEN "\t"
                                     ELSE IF d = "r" THEN "\r"
                                     ELSE IF d \in {"\"", "\\", "'"} THEN d
                                     ELSE IF d = "\n" THEN ""
                                     ELSE c \o d))

\* C30: in the program built for a string argument the argument is one
\* string literal that ends right before the closing parenthesis of the call
\* and decodes to the argument itself.
C30_ArgumentIsOneExactLiteral ==
    (toolName = "unmolt" /\ callArgs.kind = "string" /\ callPc # "request") =>
        LET lit == PyString(pythonCode, Len(CallPrefix) + 1, "")
        IN /\ lit.closed
           /\ lit.end = Len(pythonCode) - 1
           /\ lit.value = callArgs.str

=============================================================================
